---- MODULE Spec2Model ----
(***************************************************************************)
(* Model of the Dylan format test code, src/code/fmtdytst.c:               *)
(*   dylan_make_wrappers, dylan_init, make_dylan_vector, dylan_write,      *)
(*   dylan_mutate, dylan_read, dylan_check.                                *)
(*                                                                         *)
(* Memory is word addressed by byte address.  The wrappers live in malloc  *)
(* blocks (live, wmem); objects live in an arena of two blocks (mem).      *)
(* dylan_make_wrappers and make_dylan_vector are modelled step by step     *)
(* (pc), the other entry points as one action each.                        *)
(***************************************************************************)
EXTENDS Integers, Sequences, FiniteSets, Bags, TLC

\* ------------------------------------------------------------ bounds
MaxSlots == 2      \* longest vector the arena blocks can hold
MaxRnd == 3        \* rnd() yields 0..MaxRnd

\* --------------------------------------------------------- constants
NULL == 0
MPS_WORD_WIDTH == 32
WordBytes == MPS_WORD_WIDTH \div 8          \* sizeof(mps_word_t)
ALIGN == WordBytes
MPS_RES_OK == "MPS_RES_OK"
MPS_RES_MEMORY == "MPS_RES_MEMORY"
MPS_RES_RESOURCE == "MPS_RES_RESOURCE"

\* wrapper field names (offsets WW..WP of fmtdy.h, in that order)
WrapperFields == {"WW", "WC", "WM", "WF", "WV", "WS"}
WWFields == WrapperFields \cup {"WP"}
WS == 5

Threads == {1, 2}
SeqThreads == {1}

\* ------------------------------------------------------------ memory
BlockBytes == (MaxSlots + 2) * WordBytes
ObjAddrs == {BlockBytes, 2 * BlockBytes}
\* the block a client initialises and mutates; reservations come from both
ClientAddrs == {BlockBytes}
ArenaAddrs == {a + WordBytes * k : a \in ObjAddrs, k \in 0..(MaxSlots + 1)}
MallocAddrs == {3 * BlockBytes, 4 * BlockBytes, 5 * BlockBytes, 6 * BlockBytes}
RndVals == 0..MaxRnd
Pools == {<<>>, <<BlockBytes, 2 * BlockBytes>>}
Sizes == {WordBytes * k : k \in 0..(MaxSlots + 2)}
ReserveErrors == {MPS_RES_MEMORY, MPS_RES_RESOURCE}

VARIABLES
  ww,      \* static mps_word_t *ww
  tvw,     \* static mps_word_t *tvw
  live,    \* malloc blocks currently allocated
  wmem,    \* contents of the malloc blocks: written field |-> word
  mem,     \* the arena: word address |-> word
  pc,      \* per thread: position in the code
  call,    \* per thread: entry point and its arguments
  loc,     \* per thread: locals res, addr
  ap,      \* the allocation point: its current reservation
  filled,  \* word addresses written since the most recent reservation
  seen,    \* <<ww, tvw>> at each return of MPS_RES_OK by dylan_make_wrappers
  wwlive,  \* allocated blocks that malloc returned for ww (line 43)
  last     \* record of the entry point that completed last

vars == <<ww, tvw, live, wmem, mem, pc, call, loc, ap, filled, seen, wwlive, last>>

NoCall == [op |-> "none"]
\* failed: the address of the reservation whose commit failed last in this call
NoReservation == [state |-> "none", addr |-> NULL, failed |-> NULL]
NoLoc == [res |-> MPS_RES_OK, addr |-> NULL]
\* res: the result returned; v: the caller's *v of make_dylan_vector (NULL:
\* not written); ret: a returned address or boolean; rres: the answer of
\* the last mps_reserve; failed: ap.failed when the call returned; pads:
\* the calls of dylan_pad; indexed: refs[] was indexed; acted: the
\* object was written (or, for dylan_read, a slot was read)
NoLast == [op |-> "none", res |-> MPS_RES_OK, addr |-> NULL, size |-> 0,
           refs |-> <<>>, i |-> 0, j |-> 0, acted |-> FALSE, indexed |-> FALSE,
           pads |-> <<>>, ret |-> NULL, n |-> 0, w |-> NULL, v |-> NULL,
           rres |-> MPS_RES_OK, failed |-> NULL]

Running == \A t \in Threads : pc[t] # "abort"

Init ==
  /\ ww = NULL
  /\ tvw = NULL
  /\ live = {}
  /\ wmem = [a \in MallocAddrs |-> <<>>]
  /\ mem = [a \in ArenaAddrs |-> 0]
  /\ pc = [t \in Threads |-> "idle"]
  /\ call = [t \in Threads |-> NoCall]
  /\ loc = [t \in Threads |-> NoLoc]
  /\ ap = NoReservation
  /\ filled = {}
  /\ seen = {}
  /\ wwlive = {}
  /\ last = NoLast

\* ------------------------------------------------------- word encoding
RECURSIVE Pow2(_)
Pow2(n) == IF n = 0 THEN 1 ELSE 2 * Pow2(n - 1)

\* lines 28-31: (x & ((1 << width) - 1)) == x
FitsWidth(x, width) == x % Pow2(width) = x

\* lines 28-31: the four assertions of dylan_make_WV
WVAsserts(version, vb, es, vf) ==
  /\ FitsWidth(version, 8)
  /\ FitsWidth(vb, 8)
  /\ FitsWidth(es, 5)
  /\ FitsWidth(vf, 3)

\* mutant of dylan_make_WV: es is shifted by 2, into the bits of vf
dylan_make_WV_esshift(version, vb, es, vf) ==
  [hi |-> version * Pow2(MPS_WORD_WIDTH - 8 - 16) + vb,
   lo |-> es * Pow2(2) + vf]

\* (version << (MPS_WORD_WIDTH - 8)) | (vb << 16) | (es << 3) | vf.  The
\* word does not fit TLC's signed 32-bit integers, so it is kept as its
\* two 16-bit halves: version and vb fall into the high half, es and vf
\* into the low half.  The four asserted ranges make the fields disjoint,
\* so | is +.
dylan_make_WV(version, vb, es, vf) ==
  [hi |-> version * Pow2(MPS_WORD_WIDTH - 8 - 16) + vb * Pow2(16 - 16),
   lo |-> es * Pow2(3) + vf]

\* ((r & ~(mps_word_t)3) | 1)
RandomInt(r) == (r - (r % 4)) + 1

\* (t << 2) | 1
TagLength(t) == t * 4 + 1

\* DYLAN_INT(0)
DylanIntZero == TagLength(0)

\* p[1] >> 2
VectorLength(m, addr) == m[addr + WordBytes] \div 4

\* &p[2 + i]
SlotAddr(addr, i) == addr + WordBytes * (2 + i)

\* ------------------------------------------------------------- malloc
FreeAddrs == MallocAddrs \ live
LowestFree == CHOOSE a \in FreeAddrs : \A b \in FreeAddrs : a <= b
\* malloc: NULL, or the address of a block that is not allocated
MallocResults == IF FreeAddrs = {} THEN {NULL} ELSE {NULL, LowestFree}

\* the fields dylan_make_wrappers stores into the wrapper wrapper
WWContents ==
  [f \in WWFields |->
     CASE f = "WW" -> ww
       [] f = "WC" -> ww
       [] f = "WM" -> TagLength(1)
       [] f = "WF" -> (WS - 1) * 4 + 2
       [] f = "WV" -> dylan_make_WV(2, 0, 0, 0)
       [] f = "WS" -> TagLength(1)
       [] f = "WP" -> 1]

\* mutant of TVWContents: the fixed part is copied from the wrapper wrapper
TVWContents_fixedpart ==
  [f \in WrapperFields |->
     CASE f = "WW" -> ww
       [] f = "WC" -> ww
       [] f = "WM" -> TagLength(1)
       [] f = "WF" -> (WS - 1) * 4 + 2
       [] f = "WV" -> dylan_make_WV(2, 0, 0, 2)
       [] f = "WS" -> 1]

\* mutant of TVWContents: the vector wrapper is made its own wrapper
TVWContents_selfwrapped ==
  [f \in WrapperFields |->
     CASE f = "WW" -> tvw
       [] f = "WC" -> ww
       [] f = "WM" -> TagLength(1)
       [] f = "WF" -> 0
       [] f = "WV" -> dylan_make_WV(2, 0, 0, 2)
       [] f = "WS" -> 1]

\* the fields dylan_make_wrappers stores into the vector wrapper
TVWContents ==
  [f \in WrapperFields |->
     CASE f = "WW" -> ww
       [] f = "WC" -> ww
       [] f = "WM" -> TagLength(1)
       [] f = "WF" -> 0
       [] f = "WV" -> dylan_make_WV(2, 0, 0, 2)
       [] f = "WS" -> 1]

\* ------------------------------------------------ dylan_make_wrappers
\* line 42: if(ww == NULL)
mw_check(t) ==
  /\ Running
  /\ pc[t] = "mw_check"
  /\ IF ww = NULL
       THEN /\ pc' = [pc EXCEPT ![t] = "mw_alloc_ww"]
            /\ loc' = loc
       ELSE /\ pc' = [pc EXCEPT ![t] = "mw_ret"]
            /\ loc' = [loc EXCEPT ![t].res = MPS_RES_OK]
  /\ seen' = IF ww = NULL THEN seen ELSE seen \cup {<<ww, tvw>>}
  /\ UNCHANGED <<ww, tvw, live, wmem, mem, call, ap, filled, wwlive, last>>

\* mutant of mw_alloc_ww: looks at ww again and creates only if it is
\* still NULL
mw_alloc_ww_rechecked(t) ==
  /\ Running
  /\ pc[t] = "mw_alloc_ww"
  /\ IF ww # NULL
       THEN /\ pc' = [pc EXCEPT ![t] = "mw_ret"]
            /\ loc' = [loc EXCEPT ![t].res = MPS_RES_OK]
            /\ UNCHANGED <<ww, live, wmem, wwlive>>
       ELSE \E a \in MallocResults :
              /\ ww' = a
              /\ IF a = NULL
                   THEN /\ pc' = [pc EXCEPT ![t] = "mw_ret"]
                        /\ loc' = [loc EXCEPT ![t].res = MPS_RES_MEMORY]
                        /\ UNCHANGED <<live, wmem, wwlive>>
                   ELSE /\ pc' = [pc EXCEPT ![t] = "mw_alloc_tvw"]
                        /\ live' = live \cup {a}
                        /\ wmem' = [wmem EXCEPT ![a] = <<>>]
                        /\ wwlive' = wwlive \cup {a}
                        /\ loc' = loc
  /\ UNCHANGED <<tvw, mem, call, ap, filled, seen, last>>

\* lines 43-44: ww = malloc(...); if(ww == NULL) return MPS_RES_MEMORY;
mw_alloc_ww(t) ==
  /\ Running
  /\ pc[t] = "mw_alloc_ww"
  /\ \E a \in MallocResults :
       /\ ww' = a
       /\ IF a = NULL
            THEN /\ pc' = [pc EXCEPT ![t] = "mw_ret"]
                 /\ loc' = [loc EXCEPT ![t].res = MPS_RES_MEMORY]
                 /\ UNCHANGED <<live, wmem, wwlive>>
            ELSE /\ pc' = [pc EXCEPT ![t] = "mw_alloc_tvw"]
                 /\ live' = live \cup {a}
                 /\ wmem' = [wmem EXCEPT ![a] = <<>>]
                 /\ wwlive' = wwlive \cup {a}
                 /\ loc' = loc
  /\ UNCHANGED <<tvw, mem, call, ap, filled, seen, last>>

\* lines 45-49: tvw = malloc(...); if(tvw == NULL) { free(ww); return ...; }
\* free(ww) leaves the pointer ww as it is.  Freeing a block that is not
\* allocated (only another thread can have freed it) is undefined: the
\* process aborts or goes on.
mw_alloc_tvw(t) ==
  /\ Running
  /\ pc[t] = "mw_alloc_tvw"
  /\ \E a \in MallocResults :
       /\ tvw' = a
       /\ IF a = NULL
            THEN /\ live' = live \ {ww}
                 /\ wwlive' = wwlive \ {ww}
                 /\ wmem' = [b \in MallocAddrs |-> IF b = ww THEN <<>> ELSE wmem[b]]
                 /\ loc' = [loc EXCEPT ![t].res = MPS_RES_MEMORY]
                 /\ \/ pc' = [pc EXCEPT ![t] = "mw_ret"]
                    \/ /\ ww # NULL
                       /\ ww \notin live
                       /\ pc' = [pc EXCEPT ![t] = "abort"]
            ELSE /\ pc' = [pc EXCEPT ![t] = "mw_fill_ww"]
                 /\ live' = live \cup {a}
                 /\ wmem' = [wmem EXCEPT ![a] = <<>>]
                 /\ UNCHANGED <<loc, wwlive>>
  /\ UNCHANGED <<ww, mem, call, ap, filled, seen, last>>

\* lines 52-58: build a wrapper wrapper (stores through the global ww)
mw_fill_ww(t) ==
  /\ Running
  /\ pc[t] = "mw_fill_ww"
  /\ IF ww \in live
       THEN /\ wmem' = [wmem EXCEPT ![ww] = WWContents]
            /\ pc' = [pc EXCEPT ![t] = "mw_fill_tvw"]
       ELSE \* a store through NULL or through a freed pointer
            /\ wmem' = wmem
            /\ \/ pc' = [pc EXCEPT ![t] = "abort"]
               \/ /\ ww # NULL
                  /\ pc' = [pc EXCEPT ![t] = "mw_fill_tvw"]
  /\ UNCHANGED <<ww, tvw, live, mem, call, loc, ap, filled, seen, wwlive, last>>

\* lines 61-66, 68: build a wrapper for traceable vectors; return MPS_RES_OK
mw_fill_tvw(t) ==
  /\ Running
  /\ pc[t] = "mw_fill_tvw"
  /\ IF tvw \in live
       THEN /\ wmem' = [wmem EXCEPT ![tvw] = TVWContents]
            /\ pc' = [pc EXCEPT ![t] = "mw_ret"]
       ELSE /\ wmem' = wmem
            /\ \/ pc' = [pc EXCEPT ![t] = "abort"]
               \/ /\ tvw # NULL
                  /\ pc' = [pc EXCEPT ![t] = "mw_ret"]
  /\ loc' = [loc EXCEPT ![t].res = MPS_RES_OK]
  /\ seen' = IF pc'[t] = "mw_ret" THEN seen \cup {<<ww, tvw>>} ELSE seen
  /\ UNCHANGED <<ww, tvw, live, mem, call, ap, filled, wwlive, last>>

\* a caller enters dylan_make_wrappers
CallMakeWrappers(t) ==
  /\ Running
  /\ pc[t] = "idle"
  /\ pc' = [pc EXCEPT ![t] = "mw_check"]
  /\ call' = [call EXCEPT ![t] = [op |-> "mw"]]
  /\ UNCHANGED <<ww, tvw, live, wmem, mem, loc, ap, filled, seen, wwlive>>
  /\ last' = NoLast

\* dylan_make_wrappers returns to that caller
ReturnMakeWrappers(t) ==
  /\ Running
  /\ pc[t] = "mw_ret"
  /\ call[t].op = "mw"
  /\ pc' = [pc EXCEPT ![t] = "idle"]
  /\ last' = [NoLast EXCEPT !.op = "mw", !.res = loc[t].res]
  /\ call' = [call EXCEPT ![t] = NoCall]
  /\ loc' = [loc EXCEPT ![t] = NoLoc]
  /\ UNCHANGED <<ww, tvw, live, wmem, mem, ap, filled, seen, wwlive>>

MakeWrappersStep(t) ==
  \/ mw_check(t)
  \/ mw_alloc_ww(t)
  \/ mw_alloc_tvw(t)
  \/ mw_fill_ww(t)
  \/ mw_fill_tvw(t)


\* mutant of Failed: the result is not looked at
Failed_ignored(res) == FALSE

\* lines 93, 128, 135: if (res != MPS_RES_OK) return res;
Failed(res) == res # MPS_RES_OK

\* ---------------------------------------------------------- dylan_init
\* mutant of UsesPool: nr_refs == 0 is not tested
UsesPool_unguarded(r, nr_refs) == r % 2 = 0

\* line 107, negated: the slot gets refs[...] rather than a random int
UsesPool(r, nr_refs) == ~(nr_refs = 0 \/ r % 2 = 1)

\* (r >> 1) % nr_refs
PoolIndex(r, nr_refs) == (r \div 2) % nr_refs

\* a word that is neither an immediate nor an element of a pool
UndefinedWord == NULL

\* lines 107-110: the word dylan_init stores into a slot
InitSlotValue(r, refs) ==
  IF UsesPool(r, Len(refs))
    THEN IF Len(refs) = 0 THEN UndefinedWord
         ELSE refs[PoolIndex(r, Len(refs)) + 1]
    ELSE RandomInt(r)

\* lines 105-110, over the values of rnd(): the word stored and whether
\* refs[] was indexed
InitSlotChoices(refs) ==
  {[w |-> InitSlotValue(r, refs), pool |-> UsesPool(r, Len(refs))] : r \in RndVals}

\* lines 102-111: the vector dylan_init writes at addr, slot i getting ws[i]
InitVector(m, addr, n, ws) ==
  [a \in ArenaAddrs |->
     IF a = addr THEN tvw
     ELSE IF a = addr + WordBytes THEN TagLength(n)
     ELSE IF \E i \in 0..(n - 1) : a = SlotAddr(addr, i)
       THEN ws[CHOOSE i \in 0..(n - 1) : a = SlotAddr(addr, i)].w
     ELSE m[a]]

\* dylan_pad(addr, size): the external pad constructor; its effect on the
\* memory is opaque, the call is recorded
DylanPad(pads, addr, size) == Append(pads, <<addr, size>>)

\* mutant of MakesVector: one word is taken to be enough
MakesVector_oneword(size) == size >= WordBytes

\* line 98: if(size >= sizeof(mps_word_t) * 2)
MakesVector(size) == size >= WordBytes * 2

\* line 100: t = (size / sizeof(mps_word_t)) - 2
SlotCount(size) == (size \div WordBytes) - 2

\* a caller enters dylan_init; line 92.  Nothing reads addr, size, refs or
\* nr_refs before line 98, and InitBody draws them there.
CallInit(t) ==
  /\ Running
  /\ pc[t] = "idle"
  /\ pc' = [pc EXCEPT ![t] = "mw_check"]
  /\ call' = [call EXCEPT ![t] = [op |-> "init"]]
  /\ UNCHANGED <<ww, tvw, live, wmem, mem, loc, ap, filled, seen, wwlive>>
  /\ last' = NoLast

\* lines 90, 93-116, after dylan_make_wrappers has returned; size is aligned
InitBody(t, addr, size, refs) ==
  /\ Running
  /\ pc[t] = "mw_ret"
  /\ call[t].op = "init"
  /\ size % ALIGN = 0
  /\ LET c == [addr |-> addr, size |-> size, refs |-> refs]
         done == [NoLast EXCEPT !.op = "init", !.res = loc[t].res,
                                !.addr = c.addr, !.size = c.size, !.refs = c.refs]
     IN IF Failed(loc[t].res)
          THEN /\ mem' = mem
               /\ last' = done
        ELSE IF MakesVector(c.size)
          THEN \E ws \in [0..(SlotCount(c.size) - 1) -> InitSlotChoices(c.refs)] :
                 /\ mem' = InitVector(mem, c.addr, SlotCount(c.size), ws)
                 /\ last' = [done EXCEPT !.acted = TRUE,
                               !.indexed = \E i \in DOMAIN ws : ws[i].pool]
        ELSE /\ mem' = mem
             /\ last' = [done EXCEPT !.pads = DylanPad(done.pads, c.addr, c.size)]
  /\ pc' = [pc EXCEPT ![t] = "idle"]
  /\ call' = [call EXCEPT ![t] = NoCall]
  /\ loc' = [loc EXCEPT ![t] = NoLoc]
  /\ UNCHANGED <<ww, tvw, live, wmem, ap, filled, seen, wwlive>>

\* --------------------------------------------------- make_dylan_vector
\* line 131: size = (slots + 2) * sizeof(mps_word_t)
VectorSize(slots) == (slots + 2) * WordBytes

\* the word addresses of [addr, addr + size)
WordsOf(addr, size) == {addr + WordBytes * k : k \in 0..((size \div WordBytes) - 1)}

\* lines 139-144: header, tagged length and zero ints in all slots
FillVector(m, addr, slots) ==
  [a \in ArenaAddrs |->
     IF a = addr THEN tvw
     ELSE IF a = addr + WordBytes THEN TagLength(slots)
     ELSE IF \E i \in 0..(slots - 1) : a = SlotAddr(addr, i) THEN DylanIntZero
     ELSE m[a]]

\* mutant of AfterCommit: after a failed commit the old block is filled again
AfterCommit_refill(ok) == IF ok THEN "idle" ELSE "mdv_fill"

\* mutant of AfterCommit: a failed commit is tried again as it stands
AfterCommit_again(ok) == IF ok THEN "idle" ELSE "mdv_commit"

\* line 145: where the loop goes after mps_commit's answer
AfterCommit(ok) == IF ok THEN "idle" ELSE "mdv_reserve"

\* the address make_dylan_vector commits (line 145) and returns (line 147)
CommitAddr(t) == loc[t].addr

\* a caller enters make_dylan_vector; line 127.  Nothing reads slots
\* before line 131, and mdv_start draws it there.
CallMakeVector(t) ==
  /\ Running
  /\ pc[t] = "idle"
  /\ pc' = [pc EXCEPT ![t] = "mw_check"]
  /\ call' = [call EXCEPT ![t] = [op |-> "mdv"]]
  /\ UNCHANGED <<ww, tvw, live, wmem, mem, loc, ap, filled, seen, wwlive>>
  /\ last' = NoLast

\* lines 128-131, after dylan_make_wrappers has returned
mdv_start(t, slots) ==
  /\ Running
  /\ pc[t] = "mw_ret"
  /\ call[t].op = "mdv"
  /\ IF Failed(loc[t].res)
       THEN /\ pc' = [pc EXCEPT ![t] = "idle"]
            /\ last' = [NoLast EXCEPT !.op = "mdv", !.res = loc[t].res, !.n = slots]
            /\ call' = [call EXCEPT ![t] = NoCall]
            /\ loc' = [loc EXCEPT ![t] = NoLoc]
       ELSE /\ pc' = [pc EXCEPT ![t] = "mdv_reserve"]
            /\ call' = [call EXCEPT ![t] = [op |-> "mdv", slots |-> slots]]
            /\ UNCHANGED <<last, loc>>
  /\ UNCHANGED <<ww, tvw, live, wmem, mem, ap, filled, seen, wwlive>>

\* mps_reserve, under MPS_RESERVE_BLOCK: an error, or a block of the arena
ReserveResults == [res : ReserveErrors, addr : {NULL}] \cup [res : {MPS_RES_OK}, addr : ObjAddrs]

\* lines 134-136: MPS_RESERVE_BLOCK(res, addr, ap, size); if (res != MPS_RES_OK) return res;
mdv_reserve(t) ==
  /\ Running
  /\ pc[t] = "mdv_reserve"
  /\ \E r \in ReserveResults :
       /\ ap' = IF r.res = MPS_RES_OK
                  THEN [ap EXCEPT !.state = "reserved", !.addr = r.addr]
                  ELSE NoReservation
       /\ filled' = {}
       /\ IF Failed(r.res)
            THEN /\ pc' = [pc EXCEPT ![t] = "idle"]
                 /\ loc' = [loc EXCEPT ![t] = NoLoc]
                 /\ last' = [NoLast EXCEPT !.op = "mdv", !.res = r.res, !.rres = r.res,
                                           !.n = call[t].slots, !.failed = ap.failed]
                 /\ call' = [call EXCEPT ![t] = NoCall]
            ELSE /\ pc' = [pc EXCEPT ![t] = "mdv_fill"]
                 /\ loc' = [loc EXCEPT ![t] = r]
                 /\ UNCHANGED <<last, call>>
  /\ UNCHANGED <<ww, tvw, live, wmem, mem, seen, wwlive>>

\* lines 138-144
mdv_fill(t) ==
  /\ Running
  /\ pc[t] = "mdv_fill"
  /\ mem' = FillVector(mem, loc[t].addr, call[t].slots)
  /\ filled' = filled \cup WordsOf(loc[t].addr, VectorSize(call[t].slots))
  /\ pc' = [pc EXCEPT ![t] = "mdv_commit"]
  /\ UNCHANGED <<ww, tvw, live, wmem, call, loc, ap, seen, wwlive, last>>

\* what a failed commit may leave in the block: its words, or none of them
AfterFailedCommit(m, addr) ==
  {m, [a \in ArenaAddrs |-> IF a \in WordsOf(addr, BlockBytes) THEN 0 ELSE m[a]]}

\* lines 145-148: while (!mps_commit(ap, addr, size)); *v = (mps_word_t)p; return MPS_RES_OK;
mdv_commit(t) ==
  /\ Running
  /\ pc[t] = "mdv_commit"
  /\ \E ok \in BOOLEAN :
       /\ pc' = [pc EXCEPT ![t] = AfterCommit(ok)]
       /\ ap' = IF ok THEN NoReservation
                  ELSE [NoReservation EXCEPT !.failed = ap.addr]
       /\ filled' = {}
       /\ IF ok
            THEN /\ last' = [NoLast EXCEPT !.op = "mdv", !.res = MPS_RES_OK,
                                           !.n = call[t].slots, !.acted = TRUE,
                                           !.addr = ap.addr, !.v = CommitAddr(t),
                                           !.failed = ap.failed]
                 /\ call' = [call EXCEPT ![t] = NoCall]
                 /\ loc' = [loc EXCEPT ![t] = NoLoc]
                 /\ mem' = mem
            ELSE /\ mem' \in AfterFailedCommit(mem, CommitAddr(t))
                 /\ UNCHANGED <<last, call, loc>>
  /\ UNCHANGED <<ww, tvw, live, wmem, seen, wwlive>>

\* ------------------------------------------ dylan_write, dylan_mutate
\* lines 158, 177-180, 200-202: the object is a vector with slots
IsVector(m, addr) == m[addr] = tvw /\ VectorLength(m, addr) > 0

\* mutant of RandomSlot: the offset of the slots is left out
RandomSlot_nooffset(r, tl) == r % tl

\* mutant of RandomSlot: the index starts at the length word
RandomSlot_fromlength(r, tl) == 1 + (r % tl)

\* lines 160, 184, 185, 203: 2 + (rnd() % t)
RandomSlot(r, tl) == 2 + (r % tl)

\* line 162: the slot gets a random int rather than refs[...]
WritesInt(r, nr_refs) == r % 2 = 1

\* lines 162-165: the words dylan_write may store.  With nr_refs = 0 the
\* index (r >> 1) % nr_refs divides by zero: the build traps (Trap) or
\* stores whatever it reads.
Trap == 0 - 1
WriteOutcomes(r, refs) ==
  IF WritesInt(r, Len(refs)) THEN {RandomInt(r)}
  ELSE IF Len(refs) = 0 THEN {Trap, UndefinedWord, NULL}
  ELSE {refs[PoolIndex(r, Len(refs)) + 1]}

\* lines 159, 162-165, over the values of rnd(): the word stored and
\* whether refs[] was indexed
WriteChoices(refs) ==
  UNION {{[w |-> w, pool |-> ~WritesInt(r, Len(refs))] : w \in WriteOutcomes(r, refs)} :
           r \in RndVals}

\* lines 160, 184, 185, 203, over the values of rnd()
RandomSlots(tl) == {RandomSlot(r, tl) : r \in RndVals}

\* lines 152-167
dylan_write(t, addr, refs) ==
  /\ Running
  /\ pc[t] = "idle"
  /\ LET done == [NoLast EXCEPT !.op = "write", !.addr = addr, !.refs = refs]
     IN IF IsVector(mem, addr)
          THEN \E c \in WriteChoices(refs), i \in RandomSlots(VectorLength(mem, addr)) :
                 LET w == c.w
                 IN   /\ last' = [done EXCEPT !.acted = TRUE, !.i = i, !.w = w,
                                    !.indexed = c.pool]
                      /\ IF w = Trap
                           THEN /\ pc' = [pc EXCEPT ![t] = "abort"]
                                /\ mem' = mem
                           ELSE /\ pc' = pc
                                /\ mem' = [mem EXCEPT ![addr + WordBytes * i] = w]
          ELSE /\ last' = done
               /\ UNCHANGED <<pc, mem>>
  /\ UNCHANGED <<ww, tvw, live, wmem, call, loc, ap, filled, seen, wwlive>>

\* mutant of Swap: p[i] = p[j]; p[j] = p[i]; (no tmp)
Swap_notmp(m, addr, i, j) ==
  [m EXCEPT ![addr + WordBytes * i] = m[addr + WordBytes * j]]

\* lines 187-189: tmp = p[i]; p[i] = p[j]; p[j] = tmp;
Swap(m, addr, i, j) ==
  LET pi == addr + WordBytes * i
      pj == addr + WordBytes * j
      m1 == [m EXCEPT ![pi] = m[pj]]
  IN [m1 EXCEPT ![pj] = m[pi]]

\* lines 173-193
dylan_mutate(t, addr) ==
  /\ Running
  /\ pc[t] = "idle"
  /\ LET done == [NoLast EXCEPT !.op = "mutate", !.addr = addr]
     IN IF IsVector(mem, addr)
          THEN \E i \in RandomSlots(VectorLength(mem, addr)),
                    j \in RandomSlots(VectorLength(mem, addr)) :
                 /\ mem' = Swap(mem, addr, i, j)
                 /\ last' = [done EXCEPT !.acted = TRUE, !.i = i, !.j = j]
          ELSE /\ last' = done
               /\ mem' = mem
  /\ UNCHANGED <<ww, tvw, live, wmem, pc, call, loc, ap, filled, seen, wwlive>>

\* lines 195-207
dylan_read(t, addr) ==
  /\ Running
  /\ pc[t] = "idle"
  /\ LET done == [NoLast EXCEPT !.op = "read", !.addr = addr]
     IN IF IsVector(mem, addr)
          THEN \E i \in RandomSlots(VectorLength(mem, addr)) :
                 last' = [done EXCEPT !.acted = TRUE, !.i = i,
                            !.ret = mem[addr + WordBytes * i]]
          ELSE last' = [done EXCEPT !.ret = addr]
  /\ UNCHANGED <<ww, tvw, live, wmem, mem, pc, call, loc, ap, filled, seen, wwlive>>

\* --------------------------------------------------------- dylan_check
\* a wrapper block holds all its fields
Populated(a, fields) == DOMAIN wmem[a] = fields

\* dylan_wrapper_check(w) of fmtdy.c: w is one of the two wrappers, built
\* and still allocated
dylan_wrapper_check(w) ==
  /\ w # NULL
  /\ w \in live
  /\ \/ w = ww /\ Populated(w, WWFields)
     \/ w = tvw /\ Populated(w, WrapperFields)

\* lines 211-213: the three assertions of dylan_check
DylanCheck(m, addr) ==
  /\ addr # 0
  /\ addr % ALIGN = 0
  /\ dylan_wrapper_check(m[addr])

\* mutant of dylan_check: the assertions are not evaluated
dylan_check_unasserted(t, addr) ==
  /\ Running
  /\ pc[t] = "idle"
  /\ last' = [NoLast EXCEPT !.op = "check", !.addr = addr, !.ret = 1]
  /\ UNCHANGED <<ww, tvw, live, wmem, mem, pc, call, loc, ap, filled, seen, wwlive>>

\* lines 209-218: returns 1, or an assertion fails
dylan_check(t, addr) ==
  /\ Running
  /\ pc[t] = "idle"
  /\ IF DylanCheck(mem, addr)
       THEN /\ last' = [NoLast EXCEPT !.op = "check", !.addr = addr, !.ret = 1]
            /\ pc' = pc
       ELSE /\ last' = [NoLast EXCEPT !.op = "check", !.addr = addr]
            /\ pc' = [pc EXCEPT ![t] = "abort"]
  /\ UNCHANGED <<ww, tvw, live, wmem, mem, call, loc, ap, filled, seen, wwlive>>

\* addresses a caller may hand to dylan_check: objects, NULL, a misaligned one
CheckAddrs == ObjAddrs \cup {NULL, BlockBytes + 1}

\* ------------------------- dylan_write, dylan_mutate on a wrapper block
\* the word offsets WW..WP of fmtdy.h: p[k] of a wrapper is field FieldAt[k+1]
FieldAt == <<"WW", "WC", "WM", "WF", "WV", "WS", "WP">>

\* lines 43, 45: the number of words malloc gave the block
BlockWords(b) == IF b = ww THEN WS + 2 ELSE WS + 1

\* the wrappers that exist: allocated and filled
BuiltWrappers ==
  {b \in {ww, tvw} : /\ b # NULL
                     /\ b \in live
                     /\ Populated(b, IF b = ww THEN WWFields ELSE WrapperFields)}

\* lines 158, 177-180 with p pointing at a wrapper: p[0] is its WW field,
\* p[1] its WC field
IsVectorWrapperBlock(b) == wmem[b].WW = tvw /\ wmem[b].WC \div 4 > 0

\* lines 152-167, called with the address of a wrapper as addr; a store
\* beyond the block is undefined behaviour
dylan_write_wrapper(t, b, refs) ==
  /\ Running
  /\ pc[t] = "idle"
  /\ b \in BuiltWrappers
  /\ LET done == [NoLast EXCEPT !.op = "write_wrapper", !.addr = b, !.refs = refs]
     IN IF IsVectorWrapperBlock(b)
          THEN \E c \in WriteChoices(refs), i \in RandomSlots(wmem[b].WC \div 4) :
                 /\ last' = [done EXCEPT !.acted = TRUE, !.i = i, !.w = c.w,
                                !.indexed = c.pool]
                 /\ IF c.w = Trap \/ i >= BlockWords(b)
                      THEN /\ pc' = [pc EXCEPT ![t] = "abort"]
                           /\ wmem' = wmem
                      ELSE /\ pc' = pc
                           /\ wmem' = [wmem EXCEPT ![b][FieldAt[i + 1]] = c.w]
          ELSE /\ last' = done
               /\ UNCHANGED <<pc, wmem>>
  /\ UNCHANGED <<ww, tvw, live, mem, call, loc, ap, filled, seen, wwlive>>

\* lines 173-193, called with the address of a wrapper as addr
dylan_mutate_wrapper(t, b) ==
  /\ Running
  /\ pc[t] = "idle"
  /\ b \in BuiltWrappers
  /\ LET done == [NoLast EXCEPT !.op = "mutate_wrapper", !.addr = b]
     IN IF IsVectorWrapperBlock(b)
          THEN \E i \in RandomSlots(wmem[b].WC \div 4),
                    j \in RandomSlots(wmem[b].WC \div 4) :
                 /\ last' = [done EXCEPT !.acted = TRUE, !.i = i, !.j = j]
                 /\ IF i >= BlockWords(b) \/ j >= BlockWords(b)
                      THEN /\ pc' = [pc EXCEPT ![t] = "abort"]
                           /\ wmem' = wmem
                      ELSE /\ pc' = pc
                           /\ wmem' = [wmem EXCEPT
                                         ![b][FieldAt[i + 1]] = wmem[b][FieldAt[j + 1]],
                                         ![b][FieldAt[j + 1]] = wmem[b][FieldAt[i + 1]]]
          ELSE /\ last' = done
               /\ UNCHANGED <<pc, wmem>>
  /\ UNCHANGED <<ww, tvw, live, mem, call, loc, ap, filled, seen, wwlive>>

\* ------------------------------------------------------- dylan_make_WV
\* arguments tried for a field of the given width: the ends of its range,
\* every single bit, and the first value that does not fit
WVSamples(width) ==
  {0, 1, Pow2(width) - 2, Pow2(width) - 1, Pow2(width)} \cup {Pow2(k) : k \in 0..(width - 1)}

\* a caller is about to call dylan_make_WV with some arguments
InitWV ==
  /\ ww = NULL
  /\ tvw = NULL
  /\ live = {}
  /\ wmem = [a \in MallocAddrs |-> <<>>]
  /\ mem = [a \in ArenaAddrs |-> 0]
  /\ pc = [t \in Threads |-> "idle"]
  /\ \E version \in WVSamples(8), vb \in WVSamples(8), es \in WVSamples(5), vf \in WVSamples(3) :
       call = [t \in Threads |->
                 IF t \in SeqThreads
                   THEN [op |-> "wv", version |-> version, vb |-> vb, es |-> es, vf |-> vf]
                   ELSE NoCall]
  /\ loc = [t \in Threads |-> NoLoc]
  /\ ap = NoReservation
  /\ filled = {}
  /\ seen = {}
  /\ wwlive = {}
  /\ last = NoLast

\* lines 25-38: the assertions, then the packed word is returned
make_WV(t) ==
  /\ pc[t] = "idle"
  /\ call[t].op = "wv"
  /\ LET c == call[t]
     IN IF WVAsserts(c.version, c.vb, c.es, c.vf)
          THEN /\ pc' = [pc EXCEPT ![t] = "wv_ret"]
               /\ last' = [NoLast EXCEPT !.op = "wv",
                              !.ret = dylan_make_WV(c.version, c.vb, c.es, c.vf)]
          ELSE /\ pc' = [pc EXCEPT ![t] = "abort"]
               /\ last' = [NoLast EXCEPT !.op = "wv"]
  /\ UNCHANGED <<ww, tvw, live, wmem, mem, call, loc, ap, filled, seen, wwlive>>

\* --------------------------------------------------------------- specs
Next ==
  \E t \in SeqThreads :
    \/ CallMakeWrappers(t)
    \/ MakeWrappersStep(t)
    \/ ReturnMakeWrappers(t)
    \/ CallInit(t)
    \/ \E addr \in ClientAddrs, size \in Sizes, refs \in Pools : InitBody(t, addr, size, refs)
    \/ CallMakeVector(t)
    \/ \E slots \in 0..MaxSlots : mdv_start(t, slots)
    \/ mdv_reserve(t)
    \/ mdv_fill(t)
    \/ mdv_commit(t)
    \/ \E addr \in ClientAddrs, refs \in Pools : dylan_write(t, addr, refs)
    \/ \E addr \in ClientAddrs : dylan_mutate(t, addr)
    \/ \E addr \in ObjAddrs : dylan_read(t, addr)
    \/ \E addr \in CheckAddrs : dylan_check(t, addr)

Spec == Init /\ [][Next]_vars

\* two threads, each calling dylan_make_wrappers
NextConc ==
  \E t \in Threads :
    \/ CallMakeWrappers(t)
    \/ MakeWrappersStep(t)
    \/ ReturnMakeWrappers(t)

SpecConc == Init /\ [][NextConc]_vars

\* every entry point, the mutators also on the wrappers themselves
NextWrappers ==
  \/ Next
  \/ \E t \in SeqThreads, b \in MallocAddrs, refs \in Pools : dylan_write_wrapper(t, b, refs)
  \/ \E t \in SeqThreads, b \in MallocAddrs : dylan_mutate_wrapper(t, b)

SpecWrappers == Init /\ [][NextWrappers]_vars

\* make_dylan_vector alone: a caller that calls it again and again
NextBuild ==
  \E t \in SeqThreads :
    \/ CallMakeVector(t)
    \/ MakeWrappersStep(t)
    \/ \E slots \in 0..MaxSlots : mdv_start(t, slots)
    \/ mdv_reserve(t)
    \/ mdv_fill(t)
    \/ mdv_commit(t)

\* a step of a call of make_dylan_vector that is under way
BuildStep ==
  \E t \in SeqThreads :
    \/ MakeWrappersStep(t)
    \/ \E slots \in 0..MaxSlots : mdv_start(t, slots)
    \/ mdv_reserve(t)
    \/ mdv_fill(t)
    \/ mdv_commit(t)

\* line 145 with mps_commit answering true
CommitSucceeds == \E t \in SeqThreads : mdv_commit(t) /\ pc'[t] = "idle"

\* the code of a call keeps running, and the allocator does not refuse
\* every commit for ever
SpecBuildFair ==
  Init /\ [][NextBuild]_vars /\ WF_vars(BuildStep) /\ SF_vars(CommitSucceeds)

\* dylan_make_WV alone, over the sampled arguments
NextWV == \E t \in SeqThreads : make_WV(t)

SpecWV == InitWV /\ [][NextWV]_vars

\* -------------------------------------------------------------- claims
IsImmediate(w) == w % 4 = 1

\* the multiset of the tl slot values of the object at addr
SlotBag(m, addr, tl) ==
  LET vals == {m[SlotAddr(addr, k)] : k \in 0..(tl - 1)}
  IN [w \in vals |-> Cardinality({k \in 0..(tl - 1) : m[SlotAddr(addr, k)] = w})]

\* C1: every call of dylan_make_wrappers that returns MPS_RES_OK leaves the
\* wrapper wrapper and the vector wrapper allocated and fully populated, and
\* all successful calls observe the same pair of identities.
C1_SuccessLeavesWrappersBuilt ==
  \A t \in Threads :
    (pc[t] = "mw_ret" /\ loc[t].res = MPS_RES_OK) =>
      /\ ww \in live
      /\ tvw \in live
      /\ Populated(ww, WWFields)
      /\ Populated(tvw, WrapperFields)
      /\ Cardinality(seen) <= 1

\* C2: the object left at addr by a successful dylan_init (any aligned
\* size, any pool) and the object returned by a successful
\* make_dylan_vector (any slot count) pass dylan_check.
C2_ValidityClosure ==
  /\ (last.op = "init" /\ last.res = MPS_RES_OK) => DylanCheck(mem, last.addr)
  /\ (last.op = "mdv" /\ last.res = MPS_RES_OK) => DylanCheck(mem, last.v)

\* C3: every commit attempt of make_dylan_vector is on the address of the
\* most recent reservation and follows a complete fill (header, tagged
\* length, all slots) made after that reservation; after a failed commit
\* there is no reservation and no fill left to commit; the handle returned
\* is the address whose commit succeeded.
C3_ReserveFillCommit ==
  /\ \A t \in Threads :
       pc[t] = "mdv_commit" =>
         /\ ap.state = "reserved"
         /\ CommitAddr(t) = ap.addr
         /\ filled = WordsOf(ap.addr, VectorSize(call[t].slots))
         /\ mem[ap.addr] = tvw
         /\ mem[ap.addr + WordBytes] = TagLength(call[t].slots)
         /\ \A i \in 0..(call[t].slots - 1) : mem[SlotAddr(ap.addr, i)] = DylanIntZero
  /\ \A t \in Threads :
       pc[t] = "mdv_reserve" => (ap.state = "none" /\ filled = {})
  /\ (last.op = "mdv" /\ last.res = MPS_RES_OK) => (last.v = last.addr /\ last.v # NULL)

\* C3 witness: a commit is pending on a reservation at another address
\* than the one whose commit failed, the fill redone there.
C3_Witness ==
  /\ pc[1] = "mdv_commit"
  /\ call[1].slots = MaxSlots
  /\ ap.failed # NULL
  /\ ap.failed # ap.addr
  /\ filled = WordsOf(ap.addr, VectorSize(MaxSlots))

\* C4: the object make_dylan_vector returns has the vector wrapper as its
\* first word, a length word that decodes to n, and n slots holding the
\* tagged zero, however many commits failed before.
C4_BuilderZeroFill ==
  (last.op = "mdv" /\ last.res = MPS_RES_OK) =>
    /\ tvw \in live
    /\ Populated(tvw, WrapperFields)
    /\ mem[last.v] = tvw
    /\ IsImmediate(mem[last.v + WordBytes])
    /\ VectorLength(mem, last.v) = last.n
    /\ \A i \in 0..(last.n - 1) : mem[SlotAddr(last.v, i)] = DylanIntZero

\* C5: nothing stands between the null check and the creation: a thread
\* that has passed the check leaves line 43 only with a new block stored
\* in ww, whatever another thread has stored there meanwhile, or with
\* malloc's failure; so two threads can both construct.
C5_CheckThenCreate ==
  [][\A t \in Threads :
       (pc[t] = "mw_alloc_ww" /\ pc'[t] # pc[t]) =>
         \/ /\ pc'[t] = "mw_alloc_tvw"
            /\ ww' \notin live
            /\ ww' \in live'
            /\ wwlive' = wwlive \cup {ww'}
         \/ /\ pc'[t] = "mw_ret"
            /\ ww' = NULL
            /\ loc'[t].res = MPS_RES_MEMORY]_vars

\* C5 witness: both threads passed the null check, both constructed and
\* returned MPS_RES_OK; two wrapper wrappers are allocated.
C5_Witness ==
  /\ \A t \in Threads : pc[t] = "mw_ret" /\ loc[t].res = MPS_RES_OK /\ call[t].op = "mw"
  /\ Cardinality(wwlive) = 2

\* C6: dylan_write selects the value as dylan_init does: with an empty
\* pool it stores an immediate and selects no pool element; with a
\* non-empty pool it stores an immediate or a pool element.
C6_WriteFollowsInitRule ==
  (last.op = "write" /\ last.acted) =>
    /\ Len(last.refs) = 0 => (~last.indexed /\ IsImmediate(last.w) /\ Running)
    /\ Len(last.refs) > 0 =>
         \/ IsImmediate(last.w)
         \/ \E k \in 1..Len(last.refs) : last.w = last.refs[k]

\* C7: dylan_init with nr_refs = 0 and a size of at least two words stores
\* only immediate-tagged words into the slots and never indexes refs.
C7_LeafGuarantee ==
  (last.op = "init" /\ last.res = MPS_RES_OK /\ last.size >= 2 * WordBytes
     /\ Len(last.refs) = 0) =>
    /\ ~last.indexed
    /\ \A i \in 0..(SlotCount(last.size) - 1) : IsImmediate(mem[SlotAddr(last.addr, i)])

\* C7 witness: a vector of MaxSlots slots initialised from the empty pool.
C7_Witness ==
  /\ last.op = "init"
  /\ last.res = MPS_RES_OK
  /\ Len(last.refs) = 0
  /\ last.size = VectorSize(MaxSlots)
  /\ \A i \in 0..(MaxSlots - 1) : IsImmediate(mem[SlotAddr(last.addr, i)])

\* C8: for an aligned size below two words dylan_init writes nothing to
\* the memory, calls dylan_pad exactly once with the same address and
\* size, and returns MPS_RES_OK.
C8_UndersizedFallback ==
  [][\A t \in Threads :
       (pc[t] = "mw_ret" /\ call[t].op = "init" /\ loc[t].res = MPS_RES_OK
          /\ pc'[t] = "idle" /\ last'.size < 2 * WordBytes) =>
         /\ mem' = mem
         /\ last'.pads = <<<<last'.addr, last'.size>>>>
         /\ last'.res = MPS_RES_OK
         /\ ~last'.acted]_vars

\* C8 witness: dylan_init has returned from a one-word extent.
C8_Witness ==
  /\ last.op = "init"
  /\ last.res = MPS_RES_OK
  /\ last.size = WordBytes
  /\ last.pads = <<<<last.addr, WordBytes>>>>

\* C9: dylan_mutate leaves the multiset of slot values unchanged; with two
\* different indices the two slots exchange values and nothing else
\* changes; with equal indices, and on a non-vector or an empty vector,
\* nothing changes.
C9_SwapIsPermutation ==
  [][last'.op = "mutate" =>
       LET a == last'.addr
           i == last'.i
           j == last'.j
           tl == VectorLength(mem, a)
       IN /\ last'.acted = IsVector(mem, a)
          /\ ~last'.acted => mem' = mem
          /\ last'.acted =>
               /\ SlotBag(mem', a, tl) = SlotBag(mem, a, tl)
               /\ i \in 2..(tl + 1)
               /\ j \in 2..(tl + 1)
               /\ mem'[a + WordBytes * i] = mem[a + WordBytes * j]
               /\ mem'[a + WordBytes * j] = mem[a + WordBytes * i]
               /\ \A b \in ArenaAddrs :
                    b \notin {a + WordBytes * i, a + WordBytes * j} => mem'[b] = mem[b]
               /\ i = j => mem' = mem]_vars

\* C9 witness: two different slots holding different values were swapped.
C9_Witness ==
  /\ last.op = "mutate"
  /\ last.acted
  /\ last.i # last.j
  /\ mem[last.addr + WordBytes * last.i] # mem[last.addr + WordBytes * last.j]

\* C10: when dylan_make_wrappers fails, dylan_init and make_dylan_vector
\* return its result, write nothing to the memory and reserve nothing;
\* when a reservation fails, at any iteration, make_dylan_vector returns
\* the reservation's result at once: no fill, no commit, *v not written.
C10_ErrorsPropagated ==
  [][\A t \in Threads :
       /\ (pc[t] = "mw_ret" /\ call[t].op \in {"init", "mdv"}
             /\ loc[t].res # MPS_RES_OK /\ pc'[t] # pc[t]) =>
            /\ pc'[t] = "idle"
            /\ last'.res = loc[t].res
            /\ mem' = mem
            /\ ap' = ap
            /\ last'.v = NULL
            /\ last'.pads = <<>>
       /\ (pc[t] = "mdv_reserve" /\ pc'[t] # pc[t]) =>
            \/ /\ pc'[t] = "mdv_fill"
               /\ loc'[t].res = MPS_RES_OK
               /\ ap'.state = "reserved"
            \/ /\ pc'[t] = "idle"
               /\ last'.rres \in ReserveErrors
               /\ last'.res = last'.rres
               /\ last'.v = NULL
               /\ mem' = mem]_vars

\* C10 witness: a reservation failed after an earlier commit had failed,
\* and make_dylan_vector returned that reservation's error.
C10_Witness ==
  /\ last.op = "mdv"
  /\ last.res = MPS_RES_RESOURCE
  /\ last.rres = MPS_RES_RESOURCE
  /\ last.failed # NULL
  /\ last.v = NULL

\* C11: dylan_read returns addr itself when the header is not the vector
\* wrapper or the vector has no slots; otherwise it returns the value one
\* of the slots 0..t-1 holds; it never changes the memory.
C11_ReadReturnsSlotOrSelf ==
  [][last'.op = "read" =>
       LET a == last'.addr
           tl == VectorLength(mem, a)
       IN /\ mem' = mem
          /\ wmem' = wmem
          /\ (mem[a] # tvw \/ tl = 0) => last'.ret = a
          /\ (mem[a] = tvw /\ tl > 0) =>
               \E k \in 0..(tl - 1) : /\ last'.i = 2 + k
                                      /\ last'.ret = mem[SlotAddr(a, k)]]_vars

\* C11 witness: dylan_read returned the value of the last slot of a full
\* vector, a value that is not the vector's address.
C11_Witness ==
  /\ last.op = "read"
  /\ last.acted
  /\ VectorLength(mem, last.addr) = MaxSlots
  /\ last.i = MaxSlots + 1
  /\ last.ret = mem[SlotAddr(last.addr, MaxSlots - 1)]
  /\ last.ret # last.addr

WVVersion(w) == w.hi \div Pow2(MPS_WORD_WIDTH - 8 - 16)
WVFlags(w) == w.hi % Pow2(8)
WVExactSize(w) == (w.lo \div Pow2(3)) % Pow2(5)
WVVariableTag(w) == w.lo % Pow2(3)

PoolElements == UNION {{refs[k] : k \in 1..Len(refs)} : refs \in Pools}

\* the vector wrapper exists: allocated and built
VectorWrapperBuilt == tvw # NULL /\ tvw \in live /\ Populated(tvw, WrapperFields)

\* the object at a is a well-formed vector of n slots; header says what
\* is asked of the word tvw holds
WellFormedVector(m, a, n, header) ==
  /\ m[a] = tvw
  /\ header
  /\ IsImmediate(m[a + WordBytes])
  /\ VectorLength(m, a) = n
  /\ \A i \in 0..(n - 1) :
       IsImmediate(m[SlotAddr(a, i)]) \/ m[SlotAddr(a, i)] \in PoolElements

\* the steps of dylan_init (size of two words or more), make_dylan_vector,
\* dylan_write, dylan_mutate and dylan_read, made with non-empty pools,
\* leave the object they made well formed and every well-formed vector
\* well formed
HeapStaysWellFormed(header) ==
  /\ (last'.op = "init" /\ last'.res = MPS_RES_OK /\ last'.size >= 2 * WordBytes
        /\ Len(last'.refs) > 0) =>
       WellFormedVector(mem', last'.addr, SlotCount(last'.size), header)
  /\ (last'.op = "mdv" /\ last'.res = MPS_RES_OK) =>
       WellFormedVector(mem', last'.v, last'.n, header)
  /\ (\/ last'.op = "write" /\ Len(last'.refs) > 0
      \/ last'.op \in {"mutate", "read"}) =>
       \A a \in ObjAddrs, n \in 0..MaxSlots :
         WellFormedVector(mem, a, n, header) => WellFormedVector(mem', a, n, header)

\* C14: after any sequence of dylan_init (size >= two words),
\* make_dylan_vector, dylan_write, dylan_mutate and dylan_read calls with
\* non-empty pools, every vector has the vector wrapper as its first
\* word, a length word tagged as an immediate that equals its slot count,
\* and slots that are immediates or elements of a supplied pool.
C14_HeapWellFormed == [][HeapStaysWellFormed(VectorWrapperBuilt)]_vars

\* a successful dylan_init of at least two words lays out header, tagged
\* length t = size/wordsize - 2 and t slots over exactly [addr, addr+size)
InitLayout(header) ==
  (last'.op = "init" /\ last'.res = MPS_RES_OK /\ last'.size >= 2 * WordBytes) =>
    LET a == last'.addr
        t == SlotCount(last'.size)
        slots == {SlotAddr(a, i) : i \in 0..(t - 1)}
    IN /\ mem'[a] = tvw
       /\ header
       /\ mem'[a + WordBytes] = TagLength(t)
       /\ VectorLength(mem', a) = t
       /\ last'.size = 2 * WordBytes => t = 0
       /\ Cardinality(slots) = t
       /\ \A b \in slots :
            \/ IsImmediate(mem'[b])
            \/ \E k \in 1..Len(last'.refs) : mem'[b] = last'.refs[k]
       /\ {a, a + WordBytes} \cup slots = WordsOf(a, last'.size)
       /\ \A b \in ArenaAddrs \ WordsOf(a, last'.size) : mem'[b] = mem[b]

\* C15: for every aligned size of at least two words dylan_init writes
\* the vector wrapper to word 0, the tagged length t = size/wordsize - 2
\* to word 1 and t slots: every word of [addr, addr+size) and no other;
\* two words give a vector of 0 slots.
C15_InitLayout == [][InitLayout(VectorWrapperBuilt)]_vars

\* the words of the arena a step changes
ChangedWords == {b \in ArenaAddrs : mem'[b] # mem[b]}

\* C16: dylan_write changes nothing when the header is not the vector
\* wrapper or the vector has no slots, and otherwise changes at most one
\* word, a slot of index 0..t-1; dylan_write and dylan_mutate never change
\* the header word, the length word or a word outside the object's slots.
C16_MutatorFrame ==
  [][last'.op \in {"write", "mutate"} =>
       LET a == last'.addr
           tl == VectorLength(mem, a)
           slots == {SlotAddr(a, k) : k \in 0..(tl - 1)}
       IN /\ (mem[a] # tvw \/ tl = 0) => mem' = mem
          /\ last'.op = "write" => Cardinality(ChangedWords) <= 1
          /\ ChangedWords \subseteq slots
          /\ mem'[a] = mem[a]
          /\ mem'[a + WordBytes] = mem[a + WordBytes]
          /\ wmem' = wmem]_vars

\* C16 witness: dylan_write replaced the last slot of a full vector by an
\* element of the pool.
C16_Witness ==
  /\ last.op = "write"
  /\ last.acted
  /\ Running
  /\ VectorLength(mem, last.addr) = MaxSlots
  /\ last.i = MaxSlots + 1
  /\ Len(last.refs) > 0
  /\ ~IsImmediate(last.w)
  /\ mem[SlotAddr(last.addr, MaxSlots - 1)] = last.w

\* the steps of the loop of make_dylan_vector: a reservation is followed
\* by one fill and one commit; a failed commit leads to a fresh
\* reservation; the loop is left only by a failed reservation, with its
\* result, or by a successful commit
BuildLoopStep ==
  \A t \in SeqThreads :
    /\ (pc[t] = "mdv_reserve" /\ pc'[t] # pc[t]) =>
         \/ pc'[t] = "mdv_fill" /\ ap'.state = "reserved"
         \/ pc'[t] = "idle" /\ last'.op = "mdv" /\ last'.res \in ReserveErrors
    /\ (pc[t] = "mdv_fill" /\ pc'[t] # pc[t]) =>
         pc'[t] = "mdv_commit" /\ ap' = ap
    /\ (pc[t] = "mdv_commit" /\ pc'[t] # pc[t]) =>
         \/ pc'[t] = "idle" /\ last'.op = "mdv" /\ last'.res = MPS_RES_OK
         \/ pc'[t] = "mdv_reserve" /\ ap'.state = "none" /\ ap'.failed = ap.addr

\* C17: if the allocator's commit does not fail for ever, every call of
\* make_dylan_vector returns; it returns exactly when a commit succeeds or
\* a reservation fails; each iteration makes one reservation and at most
\* one commit, and a failed commit always leads to another iteration.
C17_BuildTerminates ==
  /\ \A t \in SeqThreads : (call[t].op = "mdv") ~> (pc[t] = "idle" /\ last.op = "mdv")
  /\ [][BuildLoopStep]_vars

\* C17 witness: make_dylan_vector returned a vector after a commit had
\* failed on the other block.
C17_Witness ==
  /\ last.op = "mdv"
  /\ last.res = MPS_RES_OK
  /\ last.failed # NULL
  /\ last.failed # last.v
  /\ \A t \in SeqThreads : pc[t] = "idle"

\* C18: once dylan_make_wrappers has returned MPS_RES_OK, no call of
\* dylan_make_wrappers, dylan_init, make_dylan_vector, dylan_write,
\* dylan_mutate, dylan_read or dylan_check changes ww, tvw or a word of a
\* wrapper, also when dylan_write or dylan_mutate is given the address of
\* a wrapper as its object.
C18_WrappersReadOnly ==
  [][seen # {} =>
       /\ ww' = ww
       /\ tvw' = tvw
       /\ wmem' = wmem
       /\ live' = live]_vars

\* C18 witness: dylan_write was given the address of the built vector
\* wrapper and a non-empty pool.
C18_Witness ==
  /\ last.op = "write_wrapper"
  /\ last.addr = tvw
  /\ Len(last.refs) > 0
  /\ BuiltWrappers = {ww, tvw}
  /\ wmem[tvw] = TVWContents
  /\ seen = {<<ww, tvw>>}

\* both wrappers have been constructed: allocated and filled
Constructed == ww # NULL /\ tvw # NULL /\ BuiltWrappers = {ww, tvw}

\* what the two wrappers hold apart from word 0 of the vector wrapper:
\* the wrapper wrapper is its own wrapper, both have the dummy class (the
\* wrapper wrapper) as class, the vector wrapper has no fixed part, and
\* only the wrapper wrapper has the word WP
WrapperFieldsAsBuilt ==
  /\ wmem[ww].WW = ww
  /\ wmem[ww].WC = ww
  /\ wmem[tvw].WC = ww
  /\ wmem[tvw].WF = 0
  /\ "WP" \in DOMAIN wmem[ww]
  /\ wmem[ww].WP = 1
  /\ "WP" \notin DOMAIN wmem[tvw]

\* C19 as stated: after successful construction each of the two wrappers
\* holds in word 0 a pointer to itself and in its class field a pointer to
\* the dummy class; the vector wrapper's fixed part is 0 and only the
\* wrapper wrapper carries the pad-marker word.
C19_EachWrapperSelfRef ==
  Constructed =>
    /\ WrapperFieldsAsBuilt
    /\ wmem[tvw].WW = tvw

\* C19 amended: after successful construction the wrapper wrapper holds
\* in word 0 a pointer to itself and the vector wrapper holds in word 0 a
\* pointer to the wrapper wrapper, not to itself; the rest as stated.
C19_WrapperOfWrappersIsRoot ==
  Constructed =>
    /\ WrapperFieldsAsBuilt
    /\ wmem[tvw].WW = ww
    /\ wmem[tvw].WW # tvw

\* C19 witness: dylan_make_wrappers has constructed both wrappers and
\* returned MPS_RES_OK.
C19_Witness ==
  /\ Constructed
  /\ last.op = "mw"
  /\ last.res = MPS_RES_OK
  /\ seen = {<<ww, tvw>>}
====
